---- MODULE Spec2Model ----
(***************************************************************************)
(* Model of `forge verify` (cli/src/cmd/verify.rs): VerifyArgs::run and    *)
(* its helpers get_chain, submit, get_artifact_from_name,                  *)
(* get_artifact_from_path and get_compiler_version.                        *)
(*                                                                         *)
(* Conventions.  An Option<T> is a sequence: <<>> is None, <<x>> is        *)
(* Some(x).  A String that the code splits or searches is a sequence of    *)
(* tokens (a qualified artifact name "a.sol:Token" is                      *)
(* <<"a.sol", ":", "Token">>, a source line is the sequence of its         *)
(* whitespace-separated words).  A Result is a record with an `ok` flag;   *)
(* an eyre error is a record [kind, detail] where kind names the message   *)
(* the code bails with and detail holds the values formatted into it.      *)
(***************************************************************************)
EXTENDS Integers, Sequences, FiniteSets, TLC

VARIABLES
    call,             \* which method of VerifyArgs is invoked
    pc,               \* position inside that method
    contract,         \* VerifyArgs.contract: [path : Option<String>, name : String]
    address,          \* VerifyArgs.address
    args,             \* VerifyArgs.args
    store,            \* artifact records the solc cache finds under the artifacts path
    compiled,         \* parameter `compiled` of get_artifact_from_name
    nameResult,       \* value returned by get_artifact_from_name
    chainId,          \* Option<u64>: local `chain` of run, line 41
    artifact,         \* value returned by get_artifact_from_path, line 50
    constructor_args, \* local `constructor_args` of run, line 52
    chain,            \* Option<Chain>: local `chain` of run, line 69
    etherscan,        \* Option<Client>: local `etherscan` of run, line 78
    source,           \* Option<lines of the contract's source file> read at line 223
    compiler_version, \* Option<String>: local `compiler_version`, line 80
    request,          \* Option<VerifyContract>: local `contract` of run, line 81
    submissions,      \* requests written to the explorer so far
    response,         \* Option<Result<Response<String>>>: local `response`, line 84
    outcome           \* Option<what run returned (or printed), or the abort>

vars == <<call, pc, contract, address, args, store, compiled, nameResult, chainId,
          artifact, constructor_args, chain, etherscan, source, compiler_version,
          request, submissions, response, outcome>>

(***************************************************************************)
(* Bounds of the model.                                                    *)
(***************************************************************************)
MaxArtifacts == 2   \* artifact records in the cache
MaxArgs == 2        \* constructor arguments on the command line
MaxLines == 2       \* lines of the contract's source file

None == <<>>
Some(x) == <<x>>

Err(kind, detail) == [kind |-> kind, detail |-> detail]

(***************************************************************************)
(* Input domains.                                                          *)
(***************************************************************************)
ContractNames == {"Token", "Other"}
PathInputs == {"a.sol", "./a.sol", "missing.sol"}
Addresses == {"0xdead"}

\* ethers::abi::Contract, reduced to its `constructor` field:
\* Option<list of the constructor's input types>
NoCtorAbi == [constructor |-> None]
CtorAbi == [constructor |-> Some(<<"uint256", "string">>)]
Abis == {NoCtorAbi, CtorAbi}
Bins == {"0x6080"}

OptOf(S) == {None} \cup {Some(x) : x \in S}

\* MinimalCombinedArtifacts entry: abi and bin are both Option
Artifacts == [abi : OptOf(Abis), bin : OptOf(Bins)]

ArgAt(i) == IF i = 1 THEN "100" ELSE IF i = 2 THEN "hello" ELSE "0x01"
ArgLists == {[i \in 1..n |-> ArgAt(i)] : n \in 0..MaxArgs}

(***************************************************************************)
(* The solc cache under project.artifacts_path(): a multiset of artifact   *)
(* records, each recorded for one canonical source file and one contract   *)
(* name.  A multiset is listed in one fixed order (by Rank).               *)
(***************************************************************************)
FullArtifact == [abi |-> Some(CtorAbi), bin |-> Some("0x6080")]

\* every kind of artifact for the file the command line can name, a complete
\* artifact for the other file
CacheRecords ==
    [file : {"/abs/a.sol"}, name : ContractNames, artifact : Artifacts]
    \cup [file : {"/abs/b.sol"}, name : ContractNames, artifact : {FullArtifact}]

Rank(r) ==
    (IF r.file = "/abs/a.sol" THEN 0 ELSE 100)
    + (IF r.name = "Token" THEN 0 ELSE 10)
    + (IF r.artifact.abi = None THEN 0
       ELSE IF r.artifact.abi = Some(NoCtorAbi) THEN 2 ELSE 4)
    + (IF r.artifact.bin = None THEN 0 ELSE 1)

Stores ==
    {s \in UNION {[1..n -> CacheRecords] : n \in 0..MaxArtifacts} :
        \A i \in 1..(Len(s) - 1) : Rank(s[i]) <= Rank(s[i + 1])}

(***************************************************************************)
(* get_artifact_from_path, lines 185-219.                                  *)
(***************************************************************************)
\* std::fs::canonicalize, line 191: the absolute path of an existing file,
\* an io error for a file that does not exist
Canonicalize(path) ==
    IF path \in {"a.sol", "./a.sol"} THEN Some("/abs/a.sol") ELSE None

\* lines 196-202: the cache is built for the one file abs_path, its entry's
\* `artifacts` is set to [contract.name], and read_artifacts returns the
\* artifacts recorded for those (file, name) entries
ReadArtifacts(st, abs_path, name) ==
    LET hit(r) == r.file = abs_path /\ r.name = name
        recs == SelectSeq(st, hit)
    IN  [i \in 1..Len(recs) |-> recs[i].artifact]

\* faulty variant: bin is unwrapped before abi
PathArtifactPartsBinFirst(art, name) ==
    IF art.bin = None THEN [ok |-> FALSE, err |-> Err("MissingBytecode", <<name>>)]
    ELSE IF art.abi = None THEN [ok |-> FALSE, err |-> Err("MissingAbi", <<name>>)]
    ELSE [ok |-> TRUE, abi |-> art.abi[1], bin |-> art.bin[1]]

\* lines 211-218: abi is unwrapped first, then bin
PathArtifactParts(art, name) ==
    IF art.abi = None THEN [ok |-> FALSE, err |-> Err("MissingAbi", <<name>>)]
    ELSE IF art.bin = None THEN [ok |-> FALSE, err |-> Err("MissingBytecode", <<name>>)]
    ELSE [ok |-> TRUE, abi |-> art.abi[1], bin |-> art.bin[1]]

\* faulty variant: of several artifacts the first is taken
PathArtifactSelectFirst(artifacts, name) ==
    IF artifacts = <<>> THEN [ok |-> FALSE, err |-> Err("ArtifactNotFound", <<>>)]
    ELSE PathArtifactParts(artifacts[1], name)

\* lines 204-209
PathArtifactSelect(artifacts, name) ==
    IF artifacts = <<>> THEN [ok |-> FALSE, err |-> Err("ArtifactNotFound", <<>>)]
    ELSE IF Len(artifacts) > 1
        THEN [ok |-> FALSE, err |-> Err("DuplicateContractInFile", <<>>)]
    ELSE PathArtifactParts(artifacts[1], name)

\* readOk: whether Source::read / insert_files / read_artifacts succeed
GetArtifactFromPath(st, path, name, readOk) ==
    LET abs_path == Canonicalize(path)
    IN  IF abs_path = None THEN [ok |-> FALSE, err |-> Err("Io", <<path>>)]
        ELSE IF ~readOk THEN [ok |-> FALSE, err |-> Err("CacheRead", <<abs_path[1]>>)]
        ELSE PathArtifactSelect(ReadArtifacts(st, abs_path[1], name), name)

(***************************************************************************)
(* get_artifact_from_name, lines 150-182.                                  *)
(***************************************************************************)
\* ProjectCompileOutput::into_artifacts yields (name, artifact) pairs with
\* name = "<file>:<contract>", in the order of the names
QualifiedNames ==
    << <<"a.sol", ":", "Other">>, <<"a.sol", ":", "Token">>,
       <<"b.sol", ":", "Other">>, <<"b.sol", ":", "Token">> >>

RECURSIVE Pack(_, _)
Pack(f, i) ==
    IF i > Len(QualifiedNames) THEN <<>>
    ELSE (IF f[i] = None THEN <<>>
          ELSE <<[name |-> QualifiedNames[i], artifact |-> f[i][1]]>>)
         \o Pack(f, i + 1)

CompiledOutputs ==
    {Pack(f, 1) : f \in [1..Len(QualifiedNames) -> OptOf(Artifacts)]}

\* str::split(sep).collect::<Vec<_>>(): the segments between separators
RECURSIVE SplitFrom(_, _, _, _)
SplitFrom(s, sep, i, cur) ==
    IF i > Len(s) THEN <<cur>>
    ELSE IF s[i] = sep THEN <<cur>> \o SplitFrom(s, sep, i + 1, <<>>)
    ELSE SplitFrom(s, sep, i + 1, Append(cur, s[i]))

Split(s, sep) == SplitFrom(s, sep, 1, <<>>)

\* line 158: name.split(':').collect::<Vec<_>>()[1]; None when the index is
\* out of bounds (the indexing panics)
ArtifactContractName(name) ==
    LET parts == Split(name, ":")
    IN  IF Len(parts) < 2 THEN None ELSE Some(parts[2])

\* lines 169-181
NameArtifactParts(contract_artifact, name) ==
    IF contract_artifact = None
        THEN [ok |-> FALSE, err |-> Err("ArtifactNotFound", <<>>)]
    ELSE IF contract_artifact[1].abi = None
        THEN [ok |-> FALSE, err |-> Err("MissingAbi", <<name>>)]
    ELSE IF contract_artifact[1].bin = None
        THEN [ok |-> FALSE, err |-> Err("MissingBytecode", <<name>>)]
    ELSE [ok |-> TRUE, abi |-> contract_artifact[1].abi[1],
          bin |-> contract_artifact[1].bin[1]]

\* faulty variant: the loop keeps the first match and ignores later ones
RECURSIVE NameLoopFirst(_, _, _, _, _)
NameLoopFirst(comp, i, has_found_contract, contract_artifact, name) ==
    IF i > Len(comp) THEN NameArtifactParts(contract_artifact, name)
    ELSE LET artifact_contract_name == ArtifactContractName(comp[i].name)
         IN  IF artifact_contract_name = None
                 THEN [ok |-> FALSE, err |-> Err("Panic", <<"index out of bounds">>)]
             ELSE IF artifact_contract_name[1] = <<name>> /\ ~has_found_contract
                 THEN NameLoopFirst(comp, i + 1, TRUE, Some(comp[i].artifact), name)
             ELSE NameLoopFirst(comp, i + 1, has_found_contract, contract_artifact,
                                name)

\* lines 154-167: the loop over the artifacts, from position i on
RECURSIVE NameLoop(_, _, _, _, _)
NameLoop(comp, i, has_found_contract, contract_artifact, name) ==
    IF i > Len(comp) THEN NameArtifactParts(contract_artifact, name)
    ELSE LET artifact_contract_name == ArtifactContractName(comp[i].name)
         IN  IF artifact_contract_name = None
                 THEN [ok |-> FALSE, err |-> Err("Panic", <<"index out of bounds">>)]
             ELSE IF artifact_contract_name[1] = <<name>>
                 THEN IF has_found_contract
                          THEN [ok |-> FALSE, err |-> Err("AmbiguousArtifact", <<>>)]
                      ELSE NameLoop(comp, i + 1, TRUE, Some(comp[i].artifact), name)
             ELSE NameLoop(comp, i + 1, has_found_contract, contract_artifact, name)

GetArtifactFromNameResult(comp, name) == NameLoop(comp, 1, FALSE, None, name)

(***************************************************************************)
(* Constructor arguments, lines 52-67.                                     *)
(***************************************************************************)
\* Function::signature() of the synthetic function of lines 56-62
Signature(name, inputs) == <<name>> \o inputs

\* SimpleCast::calldata(sig, args), line 64: the arguments encoded against
\* the signature; an encoding error when their number differs from the
\* number of inputs
Calldata(sig, arguments) ==
    IF Len(arguments) # Len(sig) - 1
        THEN [ok |-> FALSE, err |-> Err("ArgumentEncodingError", sig \o arguments)]
    ELSE [ok |-> TRUE, val |-> <<"calldata">> \o sig \o arguments]

\* faulty variant: a single argument without constructor is let through
ConstructorArgsLenient(abi, arguments) ==
    IF abi.constructor # None
        THEN LET encoded == Calldata(Signature("constructor", abi.constructor[1]),
                                     arguments)
             IN  IF encoded.ok THEN [ok |-> TRUE, val |-> Some(encoded.val)]
                 ELSE encoded
    ELSE IF Len(arguments) > 1
        THEN [ok |-> FALSE, err |-> Err("UnexpectedConstructorArgs", <<>>)]
    ELSE [ok |-> TRUE, val |-> None]

\* the value of `constructor_args` after lines 52-67, or the error returned
ConstructorArgs(abi, arguments) ==
    IF abi.constructor # None
        THEN LET encoded == Calldata(Signature("constructor", abi.constructor[1]),
                                     arguments)
             IN  IF encoded.ok THEN [ok |-> TRUE, val |-> Some(encoded.val)]
                 ELSE encoded
    ELSE IF arguments # <<>>
        THEN [ok |-> FALSE, err |-> Err("UnexpectedConstructorArgs", <<>>)]
    ELSE [ok |-> TRUE, val |-> None]

(***************************************************************************)
(* Chain resolution, lines 69-77.                                          *)
(***************************************************************************)
ChainIds == {1, 3, 4, 5, 42, 100, 999}

\* faulty variant: an unknown id falls back to mainnet
ChainOfDefault(id) ==
    CASE id = 1 -> Some("Mainnet")
      [] id = 3 -> Some("Ropsten")
      [] id = 4 -> Some("Rinkeby")
      [] id = 5 -> Some("Goerli")
      [] id = 42 -> Some("Kovan")
      [] id = 100 -> Some("XDai")
      [] OTHER -> Some("Mainnet")

\* the match of lines 69-77: None is the `_ => bail!` arm
ChainOf(id) ==
    CASE id = 1 -> Some("Mainnet")
      [] id = 3 -> Some("Ropsten")
      [] id = 4 -> Some("Rinkeby")
      [] id = 5 -> Some("Goerli")
      [] id = 42 -> Some("Kovan")
      [] id = 100 -> Some("XDai")
      [] OTHER -> None

\* Client::address_url, line 107
AddressUrl(client, addr) == <<"explorer", client.chain, "/address/", addr>>

(***************************************************************************)
(* get_compiler_version, lines 222-233.                                    *)
(***************************************************************************)
SourceLines ==
    { <<"pragma", "solidity", "^0.8.0;">>,
      <<"pragma", "solidity", "=0.7.6;">>,
      <<"//", "pragma", "solidity", "^0.6.0;">>,
      <<"contract", "Token", "{">>,
      <<"pragma", "solidity">> }

SourceFiles == UNION {[1..n -> SourceLines] : n \in 0..MaxLines}

\* line 228: compiler_line.contains("pragma solidity")
ContainsPragma(line) ==
    \E i \in 1..(Len(line) - 1) : line[i] = "pragma" /\ line[i + 1] = "solidity"

\* line 229: compiler_line.split_whitespace().nth(2).unwrap(); the unwrap
\* panics on a line of fewer than three words
VersionToken(line) ==
    IF Len(line) < 3 THEN [panic |-> TRUE, val |-> None]
    ELSE [panic |-> FALSE, val |-> Some(line[3])]

\* lines 226-232: the loop over the lines, from line i on
RECURSIVE VersionLoop(_, _)
VersionLoop(lines, i) ==
    IF i > Len(lines) THEN [panic |-> FALSE, val |-> None]
    ELSE IF ContainsPragma(lines[i]) THEN VersionToken(lines[i])
    ELSE VersionLoop(lines, i + 1)

\* faulty variant: a version is guessed when no line holds the directive
GetCompilerVersionGuess(lines) ==
    LET found == VersionLoop(lines, 1)
    IN  IF ~found.panic /\ found.val = None
            THEN [panic |-> FALSE, val |-> Some("latest")]
        ELSE found

GetCompilerVersion(lines) == VersionLoop(lines, 1)

(***************************************************************************)
(* The explorer's answer and its classification, lines 86-113.             *)
(***************************************************************************)
AlreadyVerifiedMessage == "Contract source code already verified"

Responses ==
    [status : {"0", "1"},
     message : {AlreadyVerifiedMessage, "Unable to locate ContractCode", "OK"},
     result : {"guid-1", "detail-2"}]

\* what submit returns, lines 141-147
SubmitResults ==
    {[ok |-> TRUE, resp |-> r] : r \in Responses}
    \cup {[ok |-> FALSE, err |-> Err("SubmissionTransportError", <<>>)]}

\* faulty variant: every status "0" is a rejection, reported by message only
ClassifyStrict(res, url) ==
    IF res.ok
        THEN IF res.resp.status = "0"
                 THEN [ok |-> FALSE, kind |-> "VerificationRejected",
                       detail |-> <<res.resp.message>>]
             ELSE [ok |-> TRUE, kind |-> "Accepted",
                   detail |-> <<res.resp.message, res.resp.result>> \o url \o <<"#code">>]
    ELSE [ok |-> FALSE, kind |-> res.err.kind, detail |-> res.err.detail]

\* the value run returns (with what it prints) for a response
Classify(res, url) ==
    IF res.ok
        THEN IF res.resp.status = "0"
                 THEN IF res.resp.message = AlreadyVerifiedMessage
                          THEN [ok |-> TRUE, kind |-> "AlreadyVerified",
                                detail |-> <<"Contract source code already verified.">>]
                      ELSE [ok |-> FALSE, kind |-> "VerificationRejected",
                            detail |-> <<res.resp.message, res.resp.result>>]
             ELSE [ok |-> TRUE, kind |-> "Accepted",
                   detail |-> <<res.resp.message, res.resp.result>> \o url \o <<"#code">>]
    ELSE [ok |-> FALSE, kind |-> res.err.kind, detail |-> res.err.detail]

(***************************************************************************)
(* Initial state: a VerifyArgs value as parsed from the command line, the  *)
(* project's artifact cache, and the method about to be called on it.      *)
(***************************************************************************)
Init ==
    /\ call \in {"run", "get_artifact_from_name"}
    /\ address \in Addresses
    /\ IF call = "run"
           THEN /\ pc = "api_key"
                /\ contract \in [path : OptOf(PathInputs), name : ContractNames]
                /\ args \in ArgLists
                /\ store \in Stores
           ELSE /\ pc = "by_name"
                /\ contract \in [path : {None}, name : ContractNames]
                /\ args = <<>>
                /\ store = <<>>
    /\ compiled = <<>>
    /\ nameResult = None
    /\ chainId = None
    /\ artifact = None
    /\ constructor_args = None
    /\ chain = None
    /\ etherscan = None
    /\ source = None
    /\ compiler_version = None
    /\ request = None
    /\ submissions = 0
    /\ response = None
    /\ outcome = None

inputs == <<call, contract, address, args, store>>

\* run returns Err(e)
Fail(e) ==
    /\ pc' = "done"
    /\ outcome' = Some([ok |-> FALSE, kind |-> e.kind, detail |-> e.detail])

\* an unwrap/expect panics: the process aborts
Panic(where) ==
    /\ pc' = "aborted"
    /\ outcome' = Some([ok |-> FALSE, kind |-> "Panic", detail |-> <<where>>])

(***************************************************************************)
(* VerifyArgs::run, lines 38-115, one action per step.                     *)
(***************************************************************************)
\* line 39: utils::etherscan_api_key()?
RunApiKey ==
    /\ pc = "api_key"
    /\ \E keyOk \in BOOLEAN :
        IF keyOk THEN pc' = "get_chain" /\ UNCHANGED outcome
        ELSE Fail(Err("MissingApiKey", <<>>))
    /\ UNCHANGED <<inputs, compiled, nameResult, chainId, artifact, constructor_args,
                   chain, etherscan, source, compiler_version, request, submissions,
                   response>>

\* line 41 with get_chain, lines 119-139: one network round trip; the
\* result is unwrapped
RunGetChain ==
    /\ pc = "get_chain"
    /\ \E r \in {Some(id) : id \in ChainIds} \cup {None} :
        IF r # None
            THEN /\ chainId' = r
                 /\ pc' = "project"
                 /\ UNCHANGED outcome
        ELSE Panic("get_chain") /\ UNCHANGED chainId
    /\ UNCHANGED <<inputs, compiled, nameResult, artifact, constructor_args, chain,
                   etherscan, source, compiler_version, request, submissions,
                   response>>

\* line 42: self.opts.project()?
RunProject ==
    /\ pc = "project"
    /\ \E projectOk \in BOOLEAN :
        IF projectOk THEN pc' = "check_path" /\ UNCHANGED outcome
        ELSE Fail(Err("ProjectConfig", <<>>))
    /\ UNCHANGED <<inputs, compiled, nameResult, chainId, artifact, constructor_args,
                   chain, etherscan, source, compiler_version, request, submissions,
                   response>>

\* lines 45-48
RunCheckPath ==
    /\ pc = "check_path"
    /\ IF contract.path = None THEN Fail(Err("SourcePathRequired", <<>>))
       ELSE pc' = "get_artifact" /\ UNCHANGED outcome
    /\ UNCHANGED <<inputs, compiled, nameResult, chainId, artifact, constructor_args,
                   chain, etherscan, source, compiler_version, request, submissions,
                   response>>

\* line 50: self.get_artifact_from_path(&project, contract_path.clone())?
RunGetArtifact ==
    /\ pc = "get_artifact"
    /\ \E readOk \in BOOLEAN :
        LET res == GetArtifactFromPath(store, contract.path[1], contract.name, readOk)
        IN  /\ artifact' = Some(res)
            /\ IF res.ok THEN pc' = "constructor" /\ UNCHANGED outcome
               ELSE Fail(res.err)
    /\ UNCHANGED <<inputs, compiled, nameResult, chainId, constructor_args, chain,
                   etherscan, source, compiler_version, request, submissions,
                   response>>

\* lines 52-67
RunConstructorArgs ==
    /\ pc = "constructor"
    /\ LET res == ConstructorArgs(artifact[1].abi, args)
       IN  IF res.ok
               THEN /\ constructor_args' = res.val
                    /\ pc' = "match_chain"
                    /\ UNCHANGED outcome
           ELSE Fail(res.err) /\ UNCHANGED constructor_args
    /\ UNCHANGED <<inputs, compiled, nameResult, chainId, artifact, chain, etherscan,
                   source, compiler_version, request, submissions, response>>

\* lines 69-77
RunMatchChain ==
    /\ pc = "match_chain"
    /\ LET target == ChainOf(chainId[1])
       IN  IF target # None
               THEN /\ chain' = target
                    /\ pc' = "new_client"
                    /\ UNCHANGED outcome
           ELSE Fail(Err("UnsupportedChain", <<>>)) /\ UNCHANGED chain
    /\ UNCHANGED <<inputs, compiled, nameResult, chainId, artifact, constructor_args,
                   etherscan, source, compiler_version, request, submissions,
                   response>>

\* lines 78-79: Client::new(chain, etherscan_api_key) may refuse the chain
RunNewClient ==
    /\ pc = "new_client"
    /\ \E clientOk \in BOOLEAN :
        IF clientOk
            THEN /\ etherscan' = Some([chain |-> chain[1]])
                 /\ pc' = "compiler_version"
                 /\ UNCHANGED outcome
        ELSE Fail(Err("EtherscanClient", <<chain[1]>>)) /\ UNCHANGED etherscan
    /\ UNCHANGED <<inputs, compiled, nameResult, chainId, artifact, constructor_args,
                   chain, source, compiler_version, request, submissions, response>>

\* line 80: self.get_compiler_version().unwrap(); the file is the one
\* canonicalize found at line 191, its lines are read here
RunCompilerVersion ==
    /\ pc = "compiler_version"
    /\ \E lines \in SourceFiles :
        LET res == GetCompilerVersion(lines)
        IN  /\ source' = Some(lines)
            /\ IF res.panic THEN Panic("nth(2)") /\ UNCHANGED compiler_version
               ELSE IF res.val = None
                   THEN Panic("get_compiler_version") /\ UNCHANGED compiler_version
               ELSE /\ compiler_version' = res.val
                    /\ pc' = "build_request"
                    /\ UNCHANGED outcome
    /\ UNCHANGED <<inputs, compiled, nameResult, chainId, artifact, constructor_args,
                   chain, etherscan, request, submissions, response>>

\* lines 81-82
RunBuildRequest ==
    /\ pc = "build_request"
    /\ request' = Some([address |-> address,
                        source |-> contract.path[1],
                        compiler_version |-> compiler_version[1],
                        constructor_arguments |-> constructor_args])
    /\ pc' = "submit"
    /\ UNCHANGED <<inputs, compiled, nameResult, chainId, artifact, constructor_args,
                   chain, etherscan, source, compiler_version, submissions, response,
                   outcome>>

\* line 84 with submit, lines 141-147: the request is written to the explorer
RunSubmit ==
    /\ pc = "submit"
    /\ submissions' = submissions + 1
    /\ pc' = "await"
    /\ UNCHANGED <<inputs, compiled, nameResult, chainId, artifact, constructor_args,
                   chain, etherscan, source, compiler_version, request, response,
                   outcome>>

\* faulty variant: a rejection or a transport failure is answered by
\* submitting again
RunResponseRetry ==
    /\ pc = "await"
    /\ \E res \in SubmitResults :
        LET o == Classify(res, AddressUrl(etherscan[1], address))
        IN  /\ response' = Some(res)
            /\ outcome' = Some(o)
            /\ pc' = IF o.ok THEN "done" ELSE "submit"
    /\ UNCHANGED <<inputs, compiled, nameResult, chainId, artifact, constructor_args,
                   chain, etherscan, source, compiler_version, request, submissions>>

\* lines 84-113: the round trip ends and the response is matched
RunResponse ==
    /\ pc = "await"
    /\ \E res \in SubmitResults :
        /\ response' = Some(res)
        /\ outcome' = Some(Classify(res, AddressUrl(etherscan[1], address)))
    /\ pc' = "done"
    /\ UNCHANGED <<inputs, compiled, nameResult, chainId, artifact, constructor_args,
                   chain, etherscan, source, compiler_version, request, submissions>>

(***************************************************************************)
(* VerifyArgs::get_artifact_from_name called on its own, lines 150-182.    *)
(***************************************************************************)
CallGetArtifactFromName ==
    /\ pc = "by_name"
    /\ \E comp \in CompiledOutputs :
        /\ compiled' = comp
        /\ nameResult' = Some(GetArtifactFromNameResult(comp, contract.name))
    /\ pc' = "done"
    /\ UNCHANGED <<inputs, chainId, artifact, constructor_args, chain, etherscan,
                   source, compiler_version, request, submissions, response, outcome>>

Next ==
    \/ RunApiKey
    \/ RunGetChain
    \/ RunProject
    \/ RunCheckPath
    \/ RunGetArtifact
    \/ RunConstructorArgs
    \/ RunMatchChain
    \/ RunNewClient
    \/ RunCompilerVersion
    \/ RunBuildRequest
    \/ RunSubmit
    \/ RunResponse
    \/ CallGetArtifactFromName

Spec == Init /\ [][Next]_vars

(***************************************************************************)
(* Vocabulary of the properties.                                           *)
(***************************************************************************)
Terminated == pc \in {"done", "aborted"}

Returned(kind) == outcome # None /\ outcome[1].kind = kind

\* the table of section 4.1
DocumentedTargets ==
    1 :> "Mainnet" @@ 3 :> "Ropsten" @@ 4 :> "Rinkeby" @@ 5 :> "Goerli"
      @@ 42 :> "Kovan" @@ 100 :> "XDai"

\* the run got past the constructor step, so the chain match was executed
ChainMatchExecuted ==
    /\ call = "run"
    /\ chainId # None
    /\ pc \notin {"api_key", "get_chain", "project", "check_path", "get_artifact",
                  "constructor", "match_chain"}
    /\ ~(\E k \in {"MissingApiKey", "ProjectConfig", "SourcePathRequired", "Io",
                   "CacheRead", "ArtifactNotFound", "DuplicateContractInFile",
                   "MissingAbi", "MissingBytecode", "UnexpectedConstructorArgs",
                   "ArgumentEncodingError"} : Returned(k))

\* C1: once the chain match has run, a documented id has yielded exactly its
\* documented target; any other id has made the run fail with
\* UnsupportedChain; and for an id outside the table no target is chosen, no
\* explorer client exists and nothing is submitted, in every state.
C1_ChainResolution ==
    /\ ChainMatchExecuted =>
          IF chainId[1] \in DOMAIN DocumentedTargets
              THEN chain = Some(DocumentedTargets[chainId[1]])
          ELSE Returned("UnsupportedChain") /\ pc = "done" /\ ~outcome[1].ok
    /\ (chainId # None /\ chainId[1] \notin DOMAIN DocumentedTargets) =>
          /\ chain = None
          /\ etherscan = None
          /\ request = None
          /\ submissions = 0
          /\ Terminated => ~outcome[1].ok

C1_Witness ==
    /\ chainId = Some(999)
    /\ Returned("UnsupportedChain")
    /\ artifact # None /\ artifact[1].ok

\* C2: after a response has arrived over a working transport, status "0" with
\* the already-verified message ends the run in success; status "0" with any
\* other message ends it in the failure VerificationRejected carrying the
\* message and the result unchanged; any other status ends it in success
\* (Accepted) carrying the result and the explorer URL of the address.
C2_Classification ==
    (response # None /\ response[1].ok) =>
        LET r == response[1].resp
            o == outcome[1]
        IN  /\ pc = "done"
            /\ (r.status = "0" /\ r.message = "Contract source code already verified")
                  => (o.ok /\ o.kind = "AlreadyVerified")
            /\ (r.status = "0" /\ r.message # "Contract source code already verified")
                  => (~o.ok /\ o.kind = "VerificationRejected"
                      /\ o.detail = <<r.message, r.result>>)
            /\ r.status # "0"
                  => (o.ok /\ o.kind = "Accepted"
                      /\ o.detail[2] = r.result
                      /\ SubSeq(o.detail, 3, 6)
                           = <<"explorer", DocumentedTargets[chainId[1]],
                               "/address/", address>>)

C2_Witness ==
    /\ response # None /\ response[1].ok
    /\ response[1].resp.status = "0"
    /\ response[1].resp.message = "Unable to locate ContractCode"
    /\ Returned("VerificationRejected")

\* positions of `compiled` whose qualified name is <file>:N
NamedInCompiled(N) ==
    {i \in 1..Len(compiled) :
        \E f \in {"a.sol", "b.sol"} : compiled[i].name = <<f, ":", N>>}

\* C3: name-only lookup.  With exactly one artifact named N the lookup never
\* reports AmbiguousArtifact or ArtifactNotFound, succeeds when that artifact
\* is complete and then returns that artifact's ABI and bytecode; with two or
\* more it fails with AmbiguousArtifact; with none it fails with
\* ArtifactNotFound.
C3_NameLookup ==
    nameResult # None =>
        LET hits == NamedInCompiled(contract.name)
            res == nameResult[1]
        IN  /\ Cardinality(hits) = 1 =>
                LET a == compiled[CHOOSE i \in hits : TRUE].artifact
                IN  /\ res.ok <=> (a.abi # None /\ a.bin # None)
                    /\ res.ok => (a.abi = Some(res.abi) /\ a.bin = Some(res.bin))
                    /\ ~res.ok => res.err.kind \in {"MissingAbi", "MissingBytecode"}
            /\ Cardinality(hits) >= 2 =>
                (~res.ok /\ res.err.kind = "AmbiguousArtifact")
            /\ Cardinality(hits) = 0 =>
                (~res.ok /\ res.err.kind = "ArtifactNotFound")

C3_Witness ==
    /\ nameResult # None
    /\ Cardinality(NamedInCompiled(contract.name)) = 2
    /\ compiled[CHOOSE i \in NamedInCompiled(contract.name) :
                    \A j \in NamedInCompiled(contract.name) : i <= j].artifact.abi # None
    /\ ~nameResult[1].ok
    /\ nameResult[1].err.kind = "AmbiguousArtifact"

\* positions of the cache recorded for the canonical form of the requested
\* path with the requested name
RecordedForRequest ==
    {i \in 1..Len(store) :
        /\ contract.path # None
        /\ contract.path[1] \in {"a.sol", "./a.sol"}
        /\ store[i].file = "/abs/a.sol"
        /\ store[i].name = contract.name}

\* the path-scoped lookup ran and the file system and the cache could be read
PathLookupRan ==
    /\ artifact # None
    /\ (artifact[1].ok \/ artifact[1].err.kind \notin {"Io", "CacheRead"})

\* C4: path-scoped lookup.  Among the artifacts recorded for the canonical
\* source path with the requested name: exactly one and complete is returned
\* (its ABI and bytecode); none fails with ArtifactNotFound; more than one
\* fails with DuplicateContractInFile.
C4_PathLookup ==
    PathLookupRan =>
        LET hits == RecordedForRequest
            res == artifact[1]
        IN  /\ Cardinality(hits) = 1 =>
                LET a == store[CHOOSE i \in hits : TRUE].artifact
                IN  /\ res.ok <=> (a.abi # None /\ a.bin # None)
                    /\ res.ok => (a.abi = Some(res.abi) /\ a.bin = Some(res.bin))
                    /\ ~res.ok => res.err.kind \in {"MissingAbi", "MissingBytecode"}
            /\ Cardinality(hits) = 0 =>
                (~res.ok /\ res.err.kind = "ArtifactNotFound"
                 /\ Returned("ArtifactNotFound"))
            /\ Cardinality(hits) > 1 =>
                (~res.ok /\ res.err.kind = "DuplicateContractInFile"
                 /\ Returned("DuplicateContractInFile"))

C4_Witness ==
    /\ PathLookupRan
    /\ Cardinality(RecordedForRequest) = 2
    /\ Len(store) > 2 \/ \E i \in 1..Len(store) : store[i].artifact = FullArtifact
    /\ Returned("DuplicateContractInFile")

\* the lookup of line 50 succeeded and lines 52-67 have been executed
ConstructorStepExecuted ==
    /\ artifact # None
    /\ artifact[1].ok
    /\ pc # "constructor"

\* C5: for an ABI without constructor, any non-empty argument list (one
\* argument included) makes the run fail with UnexpectedConstructorArgs with
\* nothing built or submitted; the empty list does not fail at this step and
\* a request, when built, has no constructor arguments.  For an ABI with a
\* constructor a built request carries the encoding of the arguments against
\* the constructor's inputs.
C5_ConstructorHandling ==
    ConstructorStepExecuted =>
        LET ctor == artifact[1].abi.constructor
        IN  /\ (ctor = None /\ Len(args) >= 1) =>
                /\ Returned("UnexpectedConstructorArgs")
                /\ pc = "done" /\ ~outcome[1].ok
                /\ request = None
                /\ submissions = 0
            /\ (ctor = None /\ args = <<>>) =>
                /\ ~Returned("UnexpectedConstructorArgs")
                /\ ~Returned("ArgumentEncodingError")
                /\ constructor_args = None
                /\ request # None => request[1].constructor_arguments = None
            /\ (ctor # None /\ request # None) =>
                request[1].constructor_arguments
                    = Some(<<"calldata", "constructor">> \o ctor[1] \o args)

C5_Witness ==
    /\ ConstructorStepExecuted
    /\ artifact[1].abi.constructor = None
    /\ Len(args) = 1
    /\ Returned("UnexpectedConstructorArgs")

\* a line holding the compiler-version directive
DirectiveLine(line) ==
    \E i \in 1..(Len(line) - 1) : line[i] = "pragma" /\ line[i + 1] = "solidity"

\* C6: when no line of the source file holds the directive, run returns the
\* typed failure MissingCompilerVersion to its caller (no abort) and nothing
\* is submitted.
C6_MissingVersionIsTypedFailure ==
    (source # None /\ \A i \in 1..Len(source[1]) : ~DirectiveLine(source[1][i])) =>
        /\ Returned("MissingCompilerVersion")
        /\ pc = "done"
        /\ submissions = 0

\* C7: with the path unset and exactly one compiled artifact of the requested
\* name, the run does not fail for want of a path: the artifact is located by
\* name and the pipeline goes on.
C7_NameOnlyRunProceeds ==
    (/\ call = "run"
     /\ contract.path = None
     /\ Cardinality({i \in 1..Len(store) : store[i].name = contract.name}) = 1)
        => ~Returned("SourcePathRequired")

\* the state of section 4.4's state machine
SubmitterState ==
    IF submissions = 0 THEN "Unsubmitted"
    ELSE IF outcome = None THEN "Submitted"
    ELSE IF outcome[1].kind = "AlreadyVerified" THEN "AlreadyVerified"
    ELSE IF outcome[1].kind = "Accepted" THEN "Accepted"
    ELSE IF outcome[1].kind = "VerificationRejected" THEN "Rejected"
    ELSE IF outcome[1].kind = "SubmissionTransportError" THEN "TransportError"
    ELSE "Other"

SubmitterStep ==
    /\ submissions' <= 1
    /\ \/ SubmitterState' = SubmitterState
       \/ SubmitterState = "Unsubmitted" /\ SubmitterState' = "Submitted"
       \/ /\ SubmitterState = "Submitted"
          /\ SubmitterState' \in {"AlreadyVerified", "Accepted", "Rejected",
                                  "TransportError"}
    /\ SubmitterState \in {"AlreadyVerified", "Accepted", "Rejected", "TransportError"}
          => (submissions' = submissions /\ pc' = pc)

\* C8: every step of a run moves the submitter only Unsubmitted -> Submitted
\* -> one of AlreadyVerified, Accepted, Rejected, TransportError; these four
\* are left by no step; and the request is written at most once.
C8_SubmissionStateMachine == [][SubmitterStep]_vars

C8_Witness ==
    /\ SubmitterState = "Rejected"
    /\ submissions = 1
    /\ pc = "done"

\* C9: whenever a request has been written, the chain id had been fetched
\* and mapped to its documented target, the client existed, the artifact had
\* been located with ABI and bytecode, the constructor step had succeeded,
\* the compiler version had been taken from a directive line of the source,
\* and the request was complete; and a run that ends in a failure of one of
\* these steps has written nothing.
C9_NothingSentBeforeAllSteps ==
    /\ submissions > 0 =>
        /\ chainId # None
        /\ chainId[1] \in DOMAIN DocumentedTargets
        /\ chain = Some(DocumentedTargets[chainId[1]])
        /\ etherscan = Some([chain |-> chain[1]])
        /\ artifact # None /\ artifact[1].ok
        /\ \E i \in RecordedForRequest :
              /\ store[i].artifact.abi = Some(artifact[1].abi)
              /\ store[i].artifact.bin = Some(artifact[1].bin)
        /\ artifact[1].abi.constructor = None => (args = <<>> /\ constructor_args = None)
        /\ artifact[1].abi.constructor # None =>
              (constructor_args # None
               /\ Len(args) = Len(artifact[1].abi.constructor[1]))
        /\ source # None /\ compiler_version # None
        /\ \E i \in 1..Len(source[1]) :
              /\ DirectiveLine(source[1][i])
              /\ Len(source[1][i]) >= 3
              /\ compiler_version[1] = source[1][i][3]
        /\ request = Some([address |-> address,
                           source |-> contract.path[1],
                           compiler_version |-> compiler_version[1],
                           constructor_arguments |-> constructor_args])
    /\ (\E k \in {"MissingApiKey", "ProjectConfig", "SourcePathRequired", "Io",
                  "CacheRead", "ArtifactNotFound", "DuplicateContractInFile",
                  "MissingAbi", "MissingBytecode", "UnexpectedConstructorArgs",
                  "ArgumentEncodingError", "UnsupportedChain", "EtherscanClient",
                  "Panic"} : Returned(k))
          => submissions = 0

C9_Witness ==
    /\ submissions = 1
    /\ pc = "await"
    /\ constructor_args # None

\* C10: in both lookups, a single matched artifact without ABI fails with
\* MissingAbi naming the requested contract (also when the bytecode is
\* absent too), one with ABI but without bytecode fails with MissingBytecode
\* naming it; by name, a duplicate is AmbiguousArtifact whatever the
\* artifacts hold.
C10_Completeness ==
    /\ (PathLookupRan /\ Cardinality(RecordedForRequest) = 1) =>
          LET a == store[CHOOSE i \in RecordedForRequest : TRUE].artifact
              res == artifact[1]
          IN  /\ a.abi = None =>
                  (~res.ok /\ res.err = Err("MissingAbi", <<contract.name>>)
                   /\ outcome = Some([ok |-> FALSE, kind |-> "MissingAbi",
                                      detail |-> <<contract.name>>]))
              /\ (a.abi # None /\ a.bin = None) =>
                  (~res.ok /\ res.err = Err("MissingBytecode", <<contract.name>>)
                   /\ outcome = Some([ok |-> FALSE, kind |-> "MissingBytecode",
                                      detail |-> <<contract.name>>]))
    /\ nameResult # None =>
          LET hits == NamedInCompiled(contract.name)
              res == nameResult[1]
          IN  /\ Cardinality(hits) = 1 =>
                  LET a == compiled[CHOOSE i \in hits : TRUE].artifact
                  IN  /\ a.abi = None =>
                          (~res.ok /\ res.err = Err("MissingAbi", <<contract.name>>))
                      /\ (a.abi # None /\ a.bin = None) =>
                          (~res.ok
                           /\ res.err = Err("MissingBytecode", <<contract.name>>))
              /\ Cardinality(hits) >= 2 =>
                  (~res.ok /\ res.err.kind = "AmbiguousArtifact")

C10_Witness ==
    /\ PathLookupRan
    /\ Cardinality(RecordedForRequest) = 1
    /\ \E i \in RecordedForRequest :
          store[i].artifact.abi = None /\ store[i].artifact.bin = None
    /\ Returned("MissingAbi")

====
